---- MODULE Spec2Model ----
(***************************************************************************)
(* Model of the Foblex Flow + ELK.js example.                              *)
(*   - ElkLayoutService (src/src/app/services/elk-layout.service.ts and    *)
(*     the other version of the service in src/unnamed/part_001):          *)
(*     flat lists with parent pointers -> nested ELK graph -> flat lists   *)
(*     with absolute positions.                                            *)
(*   - AppComponent (src/src/app/app.component.ts): controls, random graph *)
(*     generation and the asynchronous layout requests.                    *)
(* Ids (uuid strings in the code) are positive integers; null is Null and  *)
(* JavaScript's undefined is Undefined.  An optional field of an object is *)
(* a key that is or is not in the DOMAIN of the record.                    *)
(***************************************************************************)
EXTENDS Integers, Sequences, FiniteSets, TLC

VARIABLES
  \* ---- one call of ElkLayoutService.calculateLayout ----
  version,        \* which version of the service runs: "service" | "part_001"
  input,          \* ILayoutInput passed by the caller
  callerOptions,  \* Partial<IElkLayoutOptions> passed by the caller
  graph,          \* the graph handed to elk.layout (NoValue before the call)
  result,         \* what the engine resolved with (NoValue if none)
  output,         \* ILayoutOutput the promise resolved with (NoValue if none)
  error,          \* the value the promise rejected with (NoValue if none)
  svc,            \* position of the call: idle, awaiting, resolved, engineRejected, returned, rejected
  \* ---- AppComponent ----
  app,            \* lifecycle: "constructed" | "ready"
  controls,       \* the control signals (selectedDirection, ..., enableGroupsSignal)
  foblexGroups, foblexNodes, foblexEdges,
  elkResult,      \* the request whose layout the signals elkGroups, elkNodes and
                  \* elkEdges hold (NoValue: the signals are still empty)
  pending,        \* layout requests awaiting the engine
  uuid,           \* number of ids handed out by uuidv4
  requested,      \* number of layout requests started so far
  lastEvent,      \* the last handler call: its number, name and event value
  resolved        \* ids of the requests that resolved

svcVars == <<version, input, callerOptions, graph, result, output, error, svc>>
appVars == <<app, controls, foblexGroups, foblexNodes, foblexEdges,
             elkResult, pending, uuid, requested, lastEvent, resolved>>
vars == <<version, input, callerOptions, graph, result, output, error, svc,
          app, controls, foblexGroups, foblexNodes, foblexEdges,
          elkResult, pending, uuid, requested, lastEvent, resolved>>

Null == 0
Undefined == -1
NoValue == [none |-> TRUE]

\* ---------------------------------------------------------------------
\* Bounds of the model
\* ---------------------------------------------------------------------
MaxGroups == 2
MaxNodes == 2
MaxEdges == 2
NumLayouts == 4
MaxRequests == 2
NumSeeds == 3

\* ---------------------------------------------------------------------
\* Small helpers for JavaScript values
\* ---------------------------------------------------------------------
Map(s, F(_)) == [i \in 1..Len(s) |-> F(s[i])]

\* obj.f, undefined when the key is missing
Get(obj, f) == IF f \in DOMAIN obj THEN obj[f] ELSE Undefined

\* obj.type, a string or undefined
TypeOf(obj) == IF "type" \in DOMAIN obj THEN obj.type ELSE "undefined"

\* !v for ids and parent pointers
Falsy(v) == v = Null \/ v = Undefined

\* v || 0 for coordinates
OrZero(v) == IF v = Undefined THEN 0 ELSE v

\* PointExtensions.initialize(x, y)
PointInitialize(x, y) == [x |-> x, y |-> y]

\* nodes.find(n => n.id === id)?.parentId
FindParentId(nodes, id) ==
  LET hits == {i \in 1..Len(nodes) : nodes[i].id = id}
  IN IF hits = {} THEN Undefined
     ELSE nodes[CHOOSE i \in hits : \A j \in hits : i <= j].parentId

\* ---------------------------------------------------------------------
\* ElkLayoutService: options
\* ---------------------------------------------------------------------
Algorithms == {"layered", "force", "stress", "mrtree"}
Directions == {"RIGHT", "DOWN", "LEFT", "UP"}
EdgeRoutings == {"ORTHOGONAL", "POLYLINE", "SPLINES"}
NodePlacements == {"NETWORK_SIMPLEX", "BRANDES_KOEPF", "LINEAR_SEGMENTS"}

defaultOptions ==
  [algorithm |-> "layered",
   direction |-> "RIGHT",
   spacing |-> [nodeNode |-> 80, nodeNodeBetweenLayers |-> 80,
                componentComponent |-> 100, edgeNode |-> 40, edgeEdge |-> 20],
   groupPadding |-> [top |-> 50, right |-> 50, bottom |-> 50, left |-> 50],
   edgeRouting |-> "ORTHOGONAL",
   nodePlacement |-> "NETWORK_SIMPLEX"]

\* a mutant of MergeOptions: the defaults override what the caller chose
MergeOptions_defaultsWin(options) == defaultOptions @@ options

\* { ...this.defaultOptions, ...options }: a shallow merge
MergeOptions(options) == options @@ defaultOptions

\* `${v}` of a number or of undefined
Str(v) == IF v = Undefined THEN "undefined" ELSE ToString(v)

buildRootLayoutOptions(options) ==
  LET baseOptions ==
        ("elk.algorithm" :> options.algorithm) @@
        ("elk.spacing.nodeNode" :> Str(Get(options.spacing, "nodeNode"))) @@
        ("elk.spacing.componentComponent" :>
            Str(Get(options.spacing, "componentComponent"))) @@
        ("elk.separateConnectedComponents" :> "true") @@
        ("elk.hierarchyHandling" :> "INCLUDE_CHILDREN")
  IN CASE options.algorithm = "layered" ->
            ("elk.direction" :> options.direction) @@
            ("elk.layered.spacing.nodeNodeBetweenLayers" :>
                Str(Get(options.spacing, "nodeNodeBetweenLayers"))) @@
            ("elk.spacing.edgeNode" :> Str(Get(options.spacing, "edgeNode"))) @@
            ("elk.spacing.edgeEdge" :> Str(Get(options.spacing, "edgeEdge"))) @@
            ("elk.layered.nodePlacement.strategy" :> options.nodePlacement) @@
            ("elk.layered.crossingMinimization.strategy" :> "LAYER_SWEEP") @@
            ("elk.layered.cycleBreaking.strategy" :> "GREEDY") @@
            ("elk.layered.layering.strategy" :> "NETWORK_SIMPLEX") @@
            ("elk.layered.thoroughness" :> "10") @@
            ("elk.edgeRouting" :> options.edgeRouting) @@
            ("elk.layered.edgeRouting.selfLoopPlacement" :> "NORTH_STACKED") @@
            ("elk.portConstraints" :> "FIXED_SIDE") @@
            ("elk.considerModelOrder.strategy" :> "NODES_AND_EDGES") @@
            ("elk.interactiveLayout" :> "true") @@
            baseOptions
       [] options.algorithm = "mrtree" ->
            ("elk.direction" :> options.direction) @@
            ("elk.spacing.nodeNode" :> "60") @@
            ("elk.spacing.edgeNode" :> "30") @@
            ("elk.mrtree.searchOrder" :> "DFS") @@
            ("elk.mrtree.orderingStrategy" :> "PREORDER") @@
            ("elk.edgeRouting" :> "ORTHOGONAL") @@
            baseOptions
       [] options.algorithm = "force" ->
            ("elk.force.model" :> "FRUCHTERMAN_REINGOLD") @@
            ("elk.force.iterations" :> "500") @@
            ("elk.force.repulsivePower" :> "0") @@
            ("elk.force.temperature" :> "0.001") @@
            ("elk.force.repulsion" :> "2.0") @@
            ("elk.spacing.nodeNode" :> "150") @@
            ("elk.interactive" :> "true") @@
            ("elk.randomizationSeed" :> "1") @@
            baseOptions
       [] options.algorithm = "stress" ->
            ("elk.stress.desiredEdgeLength" :> "100") @@
            ("elk.stress.iterationLimit" :> "300") @@
            baseOptions
       [] OTHER -> baseOptions

\* `[top=${padding?.top},left=${padding?.left},bottom=...,right=...]`
PaddingString(padding) ==
  "[top=" \o Str(Get(padding, "top")) \o ",left=" \o Str(Get(padding, "left"))
    \o ",bottom=" \o Str(Get(padding, "bottom"))
    \o ",right=" \o Str(Get(padding, "right")) \o "]"

buildGroupLayoutOptions(options) ==
  LET padding == options.groupPadding
      baseGroupOptions ==
        ("elk.algorithm" :> options.algorithm) @@
        ("elk.padding" :> PaddingString(padding)) @@
        ("elk.spacing.nodeNode" :> "50") @@
        ("elk.spacing.componentComponent" :> "70") @@
        ("elk.nodeSize.constraints" :> "NODE_LABELS MINIMUM_SIZE") @@
        ("elk.hierarchyHandling" :> "INCLUDE_CHILDREN")
  IN CASE options.algorithm = "layered" ->
            ("elk.direction" :> options.direction) @@
            ("elk.layered.spacing.nodeNodeBetweenLayers" :> "50") @@
            ("elk.layered.nodePlacement.strategy" :> options.nodePlacement) @@
            ("elk.layered.crossingMinimization.strategy" :> "LAYER_SWEEP") @@
            ("elk.layered.cycleBreaking.strategy" :> "GREEDY") @@
            ("elk.layered.layering.strategy" :> "NETWORK_SIMPLEX") @@
            ("elk.edgeRouting" :> options.edgeRouting) @@
            ("elk.layered.edgeRouting.selfLoopPlacement" :> "NORTH_STACKED") @@
            ("elk.portConstraints" :> "FIXED_SIDE") @@
            ("elk.considerModelOrder.strategy" :> "NODES_AND_EDGES") @@
            baseGroupOptions
       [] options.algorithm = "mrtree" ->
            ("elk.direction" :> options.direction) @@
            ("elk.spacing.nodeNode" :> "40") @@
            ("elk.mrtree.searchOrder" :> "DFS") @@
            ("elk.mrtree.orderingStrategy" :> "PREORDER") @@
            ("elk.edgeRouting" :> "ORTHOGONAL") @@
            baseGroupOptions
       [] options.algorithm = "force" ->
            ("elk.force.model" :> "FRUCHTERMAN_REINGOLD") @@
            ("elk.force.iterations" :> "300") @@
            ("elk.force.repulsion" :> "1.5") @@
            ("elk.spacing.nodeNode" :> "80") @@
            baseGroupOptions
       [] options.algorithm = "stress" ->
            ("elk.stress.desiredEdgeLength" :> "60") @@
            ("elk.stress.iterationLimit" :> "200") @@
            baseGroupOptions
       [] OTHER -> baseGroupOptions

\* ---------------------------------------------------------------------
\* ElkLayoutService: flat lists -> nested graph
\* ---------------------------------------------------------------------
\* { id, width, height, type: 'node' }
ElkNode(node) ==
  [id |-> node.id, width |-> node.size.width, height |-> node.size.height,
   type |-> "node"]

\* { id, sources: [source], targets: [target] }
ElkEdge(edge) ==
  [id |-> edge.id, sources |-> <<edge.source>>, targets |-> <<edge.target>>]

\* a mutant of ElkGroup: the input group's size is forwarded to the engine
ElkGroup_withSize(group, children, groupEdges, options) ==
  [id |-> group.id, type |-> "group",
   width |-> group.size.width, height |-> group.size.height,
   layoutOptions |-> buildGroupLayoutOptions(options),
   children |-> children, edges |-> groupEdges]

\* { id, type: 'group', layoutOptions, children, edges }
ElkGroup(group, children, groupEdges, options) ==
  [id |-> group.id, type |-> "group",
   layoutOptions |-> buildGroupLayoutOptions(options),
   children |-> children, edges |-> groupEdges]

buildGroupHierarchy(groups, nodes, edges, options) ==
  LET OneGroup(group) ==
        LET children ==
              Map(SelectSeq(nodes, LAMBDA node : node.parentId = group.id),
                  ElkNode)
            groupEdges ==
              Map(SelectSeq(edges, LAMBDA edge :
                      /\ FindParentId(nodes, edge.source) = group.id
                      /\ FindParentId(nodes, edge.target) = group.id),
                  ElkEdge)
        IN ElkGroup(group, children, groupEdges, options)
  IN Map(groups, OneGroup)

buildRootLevelEdges(nodes, edges) ==
  Map(SelectSeq(edges, LAMBDA edge :
          LET sp == FindParentId(nodes, edge.source)
              tp == FindParentId(nodes, edge.target)
          IN sp # tp \/ (Falsy(sp) /\ Falsy(tp))),
      ElkEdge)

buildElkGraph(in, options) ==
  LET elkGroupsB == IF in.enableGroups
                    THEN buildGroupHierarchy(in.groups, in.nodes, in.edges, options)
                    ELSE <<>>
      rootNodes == Map(SelectSeq(in.nodes, LAMBDA node : Falsy(node.parentId)),
                       ElkNode)
      rootEdges == IF in.enableGroups
                   THEN buildRootLevelEdges(in.nodes, in.edges)
                   ELSE Map(in.edges, ElkEdge)
  IN [id |-> "root",
      layoutOptions |-> buildRootLayoutOptions(options),
      children |-> elkGroupsB \o rootNodes,
      edges |-> rootEdges]

\* buildElkGraph of the service version in src/unnamed/part_001: with groups and
\* the layered algorithm, groups carry fixed options and all edges go to the root
buildElkGraph_part001(in, options) ==
  IF in.enableGroups /\ options.algorithm = "layered"
  THEN LET PlainNode(node) ==
             [id |-> node.id, width |-> node.size.width,
              height |-> node.size.height]
           OneGroup(group) ==
             [id |-> group.id,
              layoutOptions |->
                ("elk.hierarchyHandling" :> "INCLUDE_CHILDREN") @@
                ("elk.padding" :> "[top=60,left=60,bottom=60,right=60]"),
              children |->
                Map(SelectSeq(in.nodes, LAMBDA node : node.parentId = group.id),
                    PlainNode),
              edges |-> <<>>]
           elkGroupsB == Map(in.groups, OneGroup)
           rootNodes == Map(SelectSeq(in.nodes,
                                      LAMBDA node : Falsy(node.parentId)),
                            PlainNode)
           allEdges == Map(in.edges, ElkEdge)
       IN [id |-> "root",
           layoutOptions |->
             ("elk.hierarchyHandling" :> "INCLUDE_CHILDREN") @@
             buildRootLayoutOptions(options),
           children |-> elkGroupsB \o rootNodes,
           edges |-> allEdges]
  ELSE buildElkGraph(in, options)

\* ---------------------------------------------------------------------
\* The layout engine (elk.layout): a black box.  It returns the submitted
\* graph with x, y, width and height added, or rejects.  The coordinates it
\* computes are drawn from a family of NumLayouts layouts; a coordinate may
\* be missing.  EdgeModes are the ways the engine may hand back edge lists.
\* ---------------------------------------------------------------------
EdgeModes == {"same", "copy", "dup", "malformed"}
EngineErrors == {"UnsupportedGraphException", "UnsupportedConfigurationException"}

ElkX(lay, p) == LET v == (lay * 3 + p * 5) % 7 IN IF v = 0 THEN Undefined ELSE v - 1
ElkY(lay, p) == LET v == (lay * 2 + p * 3 + 1) % 7 IN IF v = 0 THEN Undefined ELSE v - 1

\* the fields the engine adds to the element at place p of the tree
ElkPlaced(el, lay, p) ==
  LET x == ElkX(lay, p)
      y == ElkY(lay, p)
      xr == IF x = Undefined THEN <<>> ELSE [x |-> x]
      yr == IF y = Undefined THEN <<>> ELSE [y |-> y]
      size == IF "children" \in DOMAIN el
              THEN [width |-> 100 + 50 * ((lay + p) % 4),
                    height |-> 120 + 40 * ((lay + p) % 3)]
              ELSE <<>>
  IN xr @@ yr @@ size @@ el

ElkLayout(g, lay, mode) ==
  LET Child(i) ==
        LET el == g.children[i]
            placed == ElkPlaced(el, lay, 4 * i)
        IN IF "children" \in DOMAIN el
           THEN [placed EXCEPT !["children"] =
                   [j \in 1..Len(el.children) |->
                      ElkPlaced(el.children[j], lay, 4 * i + j)]]
           ELSE placed
      children == [i \in 1..Len(g.children) |-> Child(i)]
      nested == [i \in 1..Len(g.children) |->
                   IF "edges" \in DOMAIN g.children[i]
                   THEN g.children[i].edges ELSE <<>>]
      Flat[i \in 0..Len(nested)] ==
        IF i = 0 THEN <<>> ELSE Flat[i-1] \o nested[i]
      edges ==
        CASE mode = "copy" -> g.edges \o Flat[Len(nested)]
          [] mode = "dup" -> g.edges \o g.edges
          [] mode = "malformed" /\ Len(g.edges) > 0 ->
               [g.edges EXCEPT ![1] = [id |-> g.edges[1].id]]
          [] OTHER -> g.edges
  IN [id |-> g.id, layoutOptions |-> g.layoutOptions,
      children |-> children, edges |-> edges,
      x |-> 0, y |-> 0, width |-> 1000, height |-> 1000]

\* ---------------------------------------------------------------------
\* ElkLayoutService: nested result -> flat lists with absolute positions
\* ---------------------------------------------------------------------
First(s) == IF Len(s) > 0 THEN s[1] ELSE Undefined

\* { id, source: sources[0], target: targets[0], sourceHandle, targetHandle }
FlatEdge(edge) ==
  [id |-> edge.id, source |-> First(edge.sources), target |-> First(edge.targets),
   sourceHandle |-> First(edge.sources), targetHandle |-> First(edge.targets)]

Concat(ss) ==
  LET C[i \in 0..Len(ss)] == IF i = 0 THEN <<>> ELSE C[i-1] \o ss[i]
  IN C[Len(ss)]

\* edge.sources[0] / edge.targets[0] on an edge without the array: TypeError
EdgeThrows(edge) == "sources" \notin DOMAIN edge \/ "targets" \notin DOMAIN edge

\* a mutant of AbsolutePosition: the group's origin is not added
AbsolutePosition_relative(group, node) ==
  PointInitialize(OrZero(Get(node, "x")), OrZero(Get(node, "y")))

\* absoluteX = (group.x || 0) + (node.x || 0), the same for y
AbsolutePosition(group, node) ==
  PointInitialize(OrZero(Get(group, "x")) + OrZero(Get(node, "x")),
                  OrZero(Get(group, "y")) + OrZero(Get(node, "y")))

extractLayoutResults(res, enableGroups) ==
  LET elkGroupsR == IF enableGroups
                    THEN SelectSeq(res.children,
                                   LAMBDA node : TypeOf(node) = "group")
                    ELSE <<>>
      GroupOut(group) ==
        [id |-> group.id,
         size |-> [width |-> Get(group, "width"), height |-> Get(group, "height")],
         position |-> PointInitialize(OrZero(Get(group, "x")),
                                      OrZero(Get(group, "y")))]
      GroupNodes(group) ==
        IF "children" \in DOMAIN group
        THEN Map(group.children, LAMBDA node :
               [id |-> node.id,
                size |-> [width |-> Get(node, "width"),
                          height |-> Get(node, "height")],
                position |-> AbsolutePosition(group, node),
                parentId |-> group.id])
        ELSE <<>>
      rootNodes == SelectSeq(res.children,
                             LAMBDA node : TypeOf(node) = "node")
      RootOut(node) ==
        [id |-> node.id,
         size |-> [width |-> Get(node, "width"), height |-> Get(node, "height")],
         position |-> PointInitialize(OrZero(Get(node, "x")),
                                      OrZero(Get(node, "y"))),
         parentId |-> Null]
  IN [groups |-> Map(elkGroupsR, GroupOut),
      nodes |-> Concat(Map(elkGroupsR, GroupNodes)) \o Map(rootNodes, RootOut),
      edges |-> Map(res.edges, FlatEdge)]

\* the result makes extractLayoutResults throw
extractThrows(res) == \E i \in 1..Len(res.edges) : EdgeThrows(res.edges[i])

\* a mutant of PushNewEdges: no check whether the edge is already in the output
PushNewEdges_all(acc, list) == acc \o Map(list, FlatEdge)

\* child.edges.forEach: push the edges whose id is not in the output yet
PushNewEdges(acc, list) ==
  LET P[i \in 0..Len(list)] ==
        IF i = 0 THEN acc
        ELSE LET edges == P[i-1]
             IN IF \E k \in 1..Len(edges) : edges[k].id = list[i].id
                THEN edges
                ELSE Append(edges, FlatEdge(list[i]))
  IN P[Len(list)]

\* extractLayoutResults of the service version in src/unnamed/part_001
IsGroup_part001(child) == "children" \in DOMAIN child \/ TypeOf(child) = "group"

extractLayoutResults_part001(res) ==
  LET NodeOut(child, x, y, parentId) ==
        [id |-> child.id,
         size |-> [width |-> Get(child, "width"), height |-> Get(child, "height")],
         position |-> PointInitialize(x, y),
         parentId |-> parentId]
      \* extractNodesFromGroup(group) with the default parentOffset {x: 0, y: 0}
      extractNodesFromGroup(group) ==
        LET groupX == 0 + OrZero(Get(group, "x"))
            groupY == 0 + OrZero(Get(group, "y"))
        IN IF "children" \in DOMAIN group
           THEN Map(SelectSeq(group.children, LAMBDA child :
                        "children" \notin DOMAIN child
                          \/ TypeOf(child) = "node"),
                    LAMBDA child :
                      NodeOut(child, groupX + OrZero(Get(child, "x")),
                              groupY + OrZero(Get(child, "y")), group.id))
           ELSE <<>>
      GroupOut(child) ==
        [id |-> child.id,
         size |-> [width |-> Get(child, "width"), height |-> Get(child, "height")],
         position |-> PointInitialize(OrZero(Get(child, "x")),
                                      OrZero(Get(child, "y")))]
      NodesOf(child) ==
        IF IsGroup_part001(child)
        THEN extractNodesFromGroup(child)
        ELSE <<NodeOut(child, OrZero(Get(child, "x")), OrZero(Get(child, "y")),
                       Null)>>
      E[i \in 0..Len(res.children)] ==
        IF i = 0 THEN Map(res.edges, FlatEdge)
        ELSE IF IsGroup_part001(res.children[i]) /\ "edges" \in DOMAIN res.children[i]
             THEN PushNewEdges(E[i-1], res.children[i].edges)
             ELSE E[i-1]
  IN [groups |-> Map(SelectSeq(res.children, IsGroup_part001), GroupOut),
      nodes |-> Concat(Map(res.children, NodesOf)),
      edges |-> E[Len(res.children)]]

\* the result makes extractLayoutResults of part_001 throw: an edge it reads
\* lacks sources or targets.  It reads every root edge, and a group edge only
\* when no edge with its id is in the output yet, that is, when its id is the
\* id of no root edge and of no group edge visited before it
extractThrows_part001(res) ==
  LET Visited(i) == /\ IsGroup_part001(res.children[i])
                    /\ "edges" \in DOMAIN res.children[i]
  IN \/ \E i \in 1..Len(res.edges) : EdgeThrows(res.edges[i])
     \/ \E i \in 1..Len(res.children) :
          /\ Visited(i)
          /\ \E j \in 1..Len(res.children[i].edges) :
               LET edge == res.children[i].edges[j]
               IN /\ EdgeThrows(edge)
                  /\ \A k \in 1..Len(res.edges) : res.edges[k].id # edge.id
                  /\ \A k \in 1..(j - 1) : res.children[i].edges[k].id # edge.id
                  /\ \A h \in 1..(i - 1) :
                       Visited(h) =>
                         \A k \in 1..Len(res.children[h].edges) :
                           res.children[h].edges[k].id # edge.id

\* ---------------------------------------------------------------------
\* The inputs of calculateLayout: well-formed ILayoutInput values with
\* unique ids, parent pointers that name a group of the input or are null,
\* and edges between nodes of the input.  Groups have the ids 1, 2, ..., nodes
\* 11, 12, ..., edges 21, 22, ...
\* ---------------------------------------------------------------------
GroupsOfInput == {[i \in 1..k |-> [id |-> i, size |-> [width |-> 200, height |-> 200]]]
                   : k \in 0..MaxGroups}

NodesOfInput(groups) ==
  LET parents == {Null} \cup {groups[i].id : i \in 1..Len(groups)}
  IN UNION {{[i \in 1..k |->
                [id |-> 10 + i,
                 size |-> [width |-> 100 + 10 * i, height |-> 50 + 10 * i],
                 parentId |-> par[i]]] : par \in [1..k -> parents]}
            : k \in 0..MaxNodes}

EdgesOfInput(nodes) ==
  LET ids == {nodes[i].id : i \in 1..Len(nodes)}
  IN UNION {{[i \in 1..k |->
                [id |-> 20 + i, source |-> ends[i][1], target |-> ends[i][2],
                 sourceHandle |-> ends[i][1], targetHandle |-> ends[i][2]]]
              : ends \in [1..k -> ids \X ids]}
            : k \in 0..MaxEdges}

Versions == {"service", "part_001"}

\* ---------------------------------------------------------------------
\* AppComponent: the state after construction
\* ---------------------------------------------------------------------
InitControls ==
  [selectedDirection |-> "DOWN", selectedAlgorithm |-> "layered",
   selectedEdgeRouting |-> "ORTHOGONAL", selectedNodePlacement |-> "NETWORK_SIMPLEX",
   nodeSpacing |-> 80, layerSpacing |-> 80, groupPadding |-> 60,
   enableGroupsSignal |-> TRUE]

AppInit ==
  /\ app = "constructed"
  /\ controls = InitControls
  /\ foblexGroups = <<>> /\ foblexNodes = <<>> /\ foblexEdges = <<>>
  /\ elkResult = NoValue
  /\ pending = {}
  /\ uuid = 0
  /\ requested = 0
  /\ lastEvent = [seq |-> 0, handler |-> "constructor", value |-> NoValue]
  /\ resolved = {}

\* ---------------------------------------------------------------------
\* One call of calculateLayout(input, options)
\* ---------------------------------------------------------------------
Init ==
  /\ version \in Versions
  /\ \E groups \in GroupsOfInput : \E nodes \in NodesOfInput(groups) :
       \E edges \in EdgesOfInput(nodes) : \E enableGroups \in BOOLEAN :
         input = [groups |-> groups, nodes |-> nodes, edges |-> edges,
                  enableGroups |-> enableGroups]
  /\ callerOptions \in {[algorithm |-> a] : a \in Algorithms}
  /\ graph = NoValue /\ result = NoValue /\ output = NoValue /\ error = NoValue
  /\ svc = "idle"
  /\ AppInit

\* calculateLayout up to the await: merge the options, build the graph, submit it
calculateLayout ==
  /\ svc = "idle" /\ version = "service"
  /\ graph' = buildElkGraph(input, MergeOptions(callerOptions))
  /\ svc' = "awaiting"
  /\ UNCHANGED <<version, input, callerOptions, result, output, error>>
  /\ UNCHANGED appVars

calculateLayout_part001 ==
  /\ svc = "idle" /\ version = "part_001"
  /\ graph' = buildElkGraph_part001(input, MergeOptions(callerOptions))
  /\ svc' = "awaiting"
  /\ UNCHANGED <<version, input, callerOptions, result, output, error>>
  /\ UNCHANGED appVars

\* elk.layout(graph) resolves
ElkResolve ==
  /\ svc = "awaiting"
  /\ \E lay \in 0..(NumLayouts - 1) : \E mode \in EdgeModes :
       result' = [ok |-> TRUE, value |-> ElkLayout(graph, lay, mode)]
  /\ svc' = "settled"
  /\ UNCHANGED <<version, input, callerOptions, graph, output, error>>
  /\ UNCHANGED appVars

\* elk.layout(graph) rejects
ElkReject ==
  /\ svc = "awaiting"
  /\ \E e \in EngineErrors : result' = [ok |-> FALSE, error |-> e]
  /\ svc' = "settled"
  /\ UNCHANGED <<version, input, callerOptions, graph, output, error>>
  /\ UNCHANGED appVars

\* a mutant of CatchBlock: the error is wrapped in an error of the service
CatchBlock_wrapped(e) == "LayoutError"

\* catch (error) { console.error(...); throw error; }
CatchBlock(e) == e

\* calculateLayout after the await: return the extracted result; the catch
\* block rethrows whatever was thrown inside the try
calculateLayoutResume ==
  /\ svc = "settled" /\ version = "service"
  /\ IF ~result.ok
     THEN error' = CatchBlock(result.error) /\ output' = output /\ svc' = "rejected"
     ELSE IF extractThrows(result.value)
          THEN /\ error' = CatchBlock("TypeError")
               /\ output' = output /\ svc' = "rejected"
          ELSE /\ output' = extractLayoutResults(result.value, input.enableGroups)
               /\ error' = error /\ svc' = "returned"
  /\ UNCHANGED <<version, input, callerOptions, graph, result>>
  /\ UNCHANGED appVars

calculateLayoutResume_part001 ==
  /\ svc = "settled" /\ version = "part_001"
  /\ IF ~result.ok
     THEN error' = CatchBlock(result.error) /\ output' = output /\ svc' = "rejected"
     ELSE IF extractThrows_part001(result.value)
          THEN /\ error' = CatchBlock("TypeError")
               /\ output' = output /\ svc' = "rejected"
          ELSE /\ output' = extractLayoutResults_part001(result.value)
               /\ error' = error /\ svc' = "returned"
  /\ UNCHANGED <<version, input, callerOptions, graph, result>>
  /\ UNCHANGED appVars

Next ==
  \/ calculateLayout
  \/ calculateLayout_part001
  \/ ElkResolve
  \/ ElkReject
  \/ calculateLayoutResume
  \/ calculateLayoutResume_part001

Spec == Init /\ [][Next]_vars

\* ---------------------------------------------------------------------
\* One call of calculateLayout(input, options) with the options the caller
\* may choose: the inputs are one graph with groups and one flat graph, the
\* options are the caller's Partial<IElkLayoutOptions>, either the algorithm
\* alone or every key the application passes.
\* ---------------------------------------------------------------------
InputsForOptions ==
  {[groups |-> <<[id |-> 1, size |-> [width |-> 200, height |-> 200]],
                 [id |-> 2, size |-> [width |-> 200, height |-> 200]]>>,
    nodes |-> <<[id |-> 11, size |-> [width |-> 110, height |-> 60], parentId |-> 1],
                [id |-> 12, size |-> [width |-> 120, height |-> 70], parentId |-> 2],
                [id |-> 13, size |-> [width |-> 130, height |-> 80], parentId |-> Null]>>,
    edges |-> <<[id |-> 21, source |-> 11, target |-> 11,
                 sourceHandle |-> 11, targetHandle |-> 11],
                [id |-> 22, source |-> 11, target |-> 13,
                 sourceHandle |-> 11, targetHandle |-> 13]>>,
    enableGroups |-> TRUE],
   [groups |-> <<>>,
    nodes |-> <<[id |-> 11, size |-> [width |-> 110, height |-> 60], parentId |-> Null],
                [id |-> 12, size |-> [width |-> 120, height |-> 70], parentId |-> Null]>>,
    edges |-> <<[id |-> 21, source |-> 11, target |-> 12,
                 sourceHandle |-> 11, targetHandle |-> 12]>>,
    enableGroups |-> FALSE]}

SpacingsOfCaller ==
  {[nodeNode |-> 20, nodeNodeBetweenLayers |-> 200,
    componentComponent |-> 100, edgeNode |-> 40, edgeEdge |-> 20],
   [nodeNode |-> 200, nodeNodeBetweenLayers |-> 20,
    componentComponent |-> 100, edgeNode |-> 40, edgeEdge |-> 20]}

GroupPaddingsOfCaller ==
  {[top |-> 60, right |-> 60, bottom |-> 60, left |-> 60],
   [top |-> 10, right |-> 40, bottom |-> 30, left |-> 20]}

OptionsOfCaller ==
  {[algorithm |-> a] : a \in Algorithms} \cup
  {[algorithm |-> a, direction |-> d, edgeRouting |-> r, nodePlacement |-> p,
    spacing |-> s, groupPadding |-> g] :
      a \in Algorithms, d \in {"DOWN", "LEFT"}, r \in {"ORTHOGONAL", "SPLINES"},
      p \in {"NETWORK_SIMPLEX", "BRANDES_KOEPF"},
      s \in SpacingsOfCaller, g \in GroupPaddingsOfCaller}

InitOptions ==
  /\ version \in Versions
  /\ input \in InputsForOptions
  /\ callerOptions \in OptionsOfCaller
  /\ graph = NoValue /\ result = NoValue /\ output = NoValue /\ error = NoValue
  /\ svc = "idle"
  /\ AppInit

SpecOptions == InitOptions /\ [][Next]_vars

\* ---------------------------------------------------------------------
\* AppComponent: random graph generation.  faker.number.int draws from a
\* stream chosen by a seed: stream 0 always gives min, stream 1 always max,
\* the others mix.  uuidv4 hands out the ids u + 1, u + 2, ...
\* ---------------------------------------------------------------------
groupCount == 20

FakerInt(seed, k, min, max) ==
  CASE seed = 0 -> min
    [] seed = 1 -> max
    [] OTHER -> min + ((seed * 7 + k * 5) % (max - min + 1))

RandomSize(seed, k) ==
  [width |-> FakerInt(seed, 2 * k, 100, 350),
   height |-> FakerInt(seed, 2 * k + 1, 100, 350)]

\* createRootNodes(count): appends count root-level nodes to foblexNodes
createRootNodes(nodes, count, seed, u) ==
  nodes \o [i \in 1..count |->
              [id |-> u + i, size |-> RandomSize(seed, u + i),
               position |-> PointInitialize(0, 0), parentId |-> Null]]

\* a mutant of randomNodeCount: the range of the first version of the component
randomNodeCount_upTo20(seed, g) == FakerInt(seed, g, 0, 20)

\* faker.number.int({ min: 3, max: 10 }) of createNodesForGroup
randomNodeCount(seed, g) == FakerInt(seed, g, 3, 10)

createNodesForGroup(parentId, seed, g, u) ==
  [j \in 1..randomNodeCount(seed, g) |->
     [id |-> u + j, size |-> RandomSize(seed, u + j), parentId |-> parentId]]

\* createGroups(count): the groups, then the nodes of each group appended to
\* foblexNodes; the result is [groups, nodes]
createGroups(nodes, count, seed, u) ==
  LET groups == [i \in 1..count |->
                   [id |-> u + i, size |-> [width |-> 200, height |-> 200]]]
      N[g \in 0..count] ==
        IF g = 0 THEN nodes
        ELSE LET before == N[g-1]
             IN before \o createNodesForGroup(groups[g].id, seed, g,
                             u + count + Len(before) - Len(nodes))
  IN [groups |-> groups, nodes |-> N[count]]

\* createRandomWiredEdges(nodes, nodes.length / 3): the loop runs while
\* i < length / 3, that is ceil(length / 3) times
createRandomWiredEdges(nodes, seed, u) ==
  IF Len(nodes) < 2 THEN <<>>
  ELSE LET maxIndex == IF Len(nodes) - 1 > 0 THEN Len(nodes) - 1 ELSE 0
           total == (Len(nodes) + 2) \div 3
       IN [i \in 1..total |->
             LET sourceId == nodes[FakerInt(seed, 2 * i, 0, maxIndex) + 1].id
                 targetId == nodes[FakerInt(seed, 2 * i + 1, 0, maxIndex) + 1].id
             IN [id |-> u + i, source |-> sourceId, target |-> targetId,
                 sourceHandle |-> sourceId, targetHandle |-> targetId]]

\* the graph built by ngOnInit and by onEnableGroupsChange from empty signals:
\* 10 root nodes, then the groups with their nodes or 40 more root nodes, then
\* the edges
GenerateGraph(enabled, seed, u) ==
  LET first == createRootNodes(<<>>, 10, seed, u)
      made == IF enabled
              THEN createGroups(first, groupCount, seed, u + 10)
              ELSE [groups |-> <<>>,
                    nodes |-> createRootNodes(first, 40, seed, u + 10)]
      u2 == u + Len(made.groups) + Len(made.nodes)
      edges == createRandomWiredEdges(made.nodes, seed, u2)
  IN [groups |-> made.groups, nodes |-> made.nodes, edges |-> edges,
      uuid |-> u2 + Len(edges)]

\* parseInt(target.value, 10) of a string of decimal digits
ParseInt(digits) ==
  LET P[i \in 0..Len(digits)] == IF i = 0 THEN 0 ELSE P[i-1] * 10 + digits[i]
  IN P[Len(digits)]

\* the event values tried: options of the selects other than the initial
\* ones, and the strings "20", "150" and "120" of the range inputs
DirectionValues == {"RIGHT", "UP"}
AlgorithmValues == {"force"}
EdgeRoutingValues == {"SPLINES"}
NodePlacementValues == {"BRANDES_KOEPF"}
NodeSpacingValues == {<<2, 0>>, <<1, 5, 0>>}
LayerSpacingValues == {<<1, 2, 0>>}
GroupPaddingValues == {<<2, 0>>}

\* ---------------------------------------------------------------------
\* AppComponent: layout requests
\* ---------------------------------------------------------------------
\* the arguments elkLayout passes to calculateLayout
LayoutInput(groups, nodes, edges, ctrl) ==
  [groups |-> groups, nodes |-> nodes, edges |-> edges,
   enableGroups |-> ctrl.enableGroupsSignal]

LayoutOptions(ctrl) ==
  [algorithm |-> ctrl.selectedAlgorithm,
   direction |-> ctrl.selectedDirection,
   edgeRouting |-> ctrl.selectedEdgeRouting,
   nodePlacement |-> ctrl.selectedNodePlacement,
   spacing |-> [nodeNode |-> ctrl.nodeSpacing,
                nodeNodeBetweenLayers |-> ctrl.layerSpacing,
                componentComponent |-> 100, edgeNode |-> 40, edgeEdge |-> 20],
   groupPadding |-> [top |-> ctrl.groupPadding, right |-> ctrl.groupPadding,
                     bottom |-> ctrl.groupPadding, left |-> ctrl.groupPadding]]

\* elkLayout() up to its await: reads the signals as the handler left them and
\* starts one request
elkLayout ==
  /\ requested' = requested + 1
  /\ pending' = pending \cup
       {[id |-> requested + 1,
         input |-> LayoutInput(foblexGroups', foblexNodes', foblexEdges', controls'),
         options |-> LayoutOptions(controls')]}

\* the layout the engine computes for a request: a function of the submitted
\* options
LayoutOfRequest(req) ==
  (Len(req.options.edgeRouting) + Len(req.options.direction)
     + Len(req.options.algorithm)) % NumLayouts

\* what calculateLayout resolves with for a request
LayoutResult(req) ==
  extractLayoutResults(
    ElkLayout(buildElkGraph(req.input, MergeOptions(req.options)),
              LayoutOfRequest(req), "same"),
    req.input.enableGroups)

\* the signals elkGroups, elkNodes and elkEdges: set together from one
\* layoutResult, they are the layout of the request kept in elkResult
elkGroups == IF elkResult = NoValue THEN <<>> ELSE LayoutResult(elkResult).groups
elkNodes == IF elkResult = NoValue THEN <<>> ELSE LayoutResult(elkResult).nodes
elkEdges == IF elkResult = NoValue THEN <<>> ELSE LayoutResult(elkResult).edges

\* elkLayout() after its await when calculateLayout resolved: the three
\* signals are set from the result
ElkLayoutResolved(req) ==
  /\ req \in pending
  /\ elkResult' = req
  /\ pending' = pending \ {req}
  /\ resolved' = resolved \cup {req.id}
  /\ UNCHANGED <<app, controls, foblexGroups, foblexNodes, foblexEdges, uuid,
                 requested, lastEvent>>
  /\ UNCHANGED svcVars

\* elkLayout() after its await when calculateLayout rejected: the catch block
\* logs the error
ElkLayoutRejected(req) ==
  /\ req \in pending
  /\ pending' = pending \ {req}
  /\ UNCHANGED <<app, controls, foblexGroups, foblexNodes, foblexEdges,
                 elkResult, uuid, requested, lastEvent, resolved>>
  /\ UNCHANGED svcVars

\* ---------------------------------------------------------------------
\* AppComponent: lifecycle and handlers
\* ---------------------------------------------------------------------
ngOnInit(seed) ==
  /\ app = "constructed"
  /\ LET gen == GenerateGraph(controls.enableGroupsSignal, seed, uuid)
     IN /\ foblexGroups' = gen.groups
        /\ foblexNodes' = foblexNodes \o gen.nodes
        /\ foblexEdges' = gen.edges
        /\ uuid' = gen.uuid
  /\ app' = "ready"
  /\ lastEvent' = [seq |-> lastEvent.seq + 1, handler |-> "ngOnInit", value |-> seed]
  /\ UNCHANGED <<controls, elkResult, pending, requested, resolved>>
  /\ UNCHANGED svcVars

Handler(name, value) ==
  /\ app = "ready"
  /\ requested < MaxRequests
  /\ lastEvent' = [seq |-> lastEvent.seq + 1, handler |-> name, value |-> value]

KeepGraph == UNCHANGED <<app, foblexGroups, foblexNodes, foblexEdges, uuid,
                         elkResult, resolved>>

onLoaded ==
  /\ Handler("onLoaded", NoValue)
  /\ UNCHANGED controls
  /\ KeepGraph
  /\ elkLayout
  /\ UNCHANGED svcVars

\* a mutant of onDirectionChange: the layout is requested before the signal is set
onDirectionChange_stale(value) ==
  /\ Handler("onDirectionChange", value)
  /\ controls' = [controls EXCEPT !.selectedDirection = value]
  /\ KeepGraph
  /\ requested' = requested + 1
  /\ pending' = pending \cup
       {[id |-> requested + 1,
         input |-> LayoutInput(foblexGroups, foblexNodes, foblexEdges, controls),
         options |-> LayoutOptions(controls)]}
  /\ UNCHANGED svcVars

onDirectionChange(value) ==
  /\ Handler("onDirectionChange", value)
  /\ controls' = [controls EXCEPT !.selectedDirection = value]
  /\ KeepGraph
  /\ elkLayout
  /\ UNCHANGED svcVars

onAlgorithmChange(value) ==
  /\ Handler("onAlgorithmChange", value)
  /\ controls' = [controls EXCEPT !.selectedAlgorithm = value]
  /\ KeepGraph
  /\ elkLayout
  /\ UNCHANGED svcVars

onEdgeRoutingChange(value) ==
  /\ Handler("onEdgeRoutingChange", value)
  /\ controls' = [controls EXCEPT !.selectedEdgeRouting = value]
  /\ KeepGraph
  /\ elkLayout
  /\ UNCHANGED svcVars

onNodePlacementChange(value) ==
  /\ Handler("onNodePlacementChange", value)
  /\ controls' = [controls EXCEPT !.selectedNodePlacement = value]
  /\ KeepGraph
  /\ elkLayout
  /\ UNCHANGED svcVars

onNodeSpacingChange(value) ==
  /\ Handler("onNodeSpacingChange", value)
  /\ controls' = [controls EXCEPT !.nodeSpacing = ParseInt(value)]
  /\ KeepGraph
  /\ elkLayout
  /\ UNCHANGED svcVars

onLayerSpacingChange(value) ==
  /\ Handler("onLayerSpacingChange", value)
  /\ controls' = [controls EXCEPT !.layerSpacing = ParseInt(value)]
  /\ KeepGraph
  /\ elkLayout
  /\ UNCHANGED svcVars

onGroupPaddingChange(value) ==
  /\ Handler("onGroupPaddingChange", value)
  /\ controls' = [controls EXCEPT !.groupPadding = ParseInt(value)]
  /\ KeepGraph
  /\ elkLayout
  /\ UNCHANGED svcVars

\* the signals are emptied and the graph is generated again
onEnableGroupsChange(checked, seed) ==
  /\ Handler("onEnableGroupsChange", checked)
  /\ controls' = [controls EXCEPT !.enableGroupsSignal = checked]
  /\ LET gen == GenerateGraph(checked, seed, uuid)
     IN /\ foblexGroups' = gen.groups
        /\ foblexNodes' = gen.nodes
        /\ foblexEdges' = gen.edges
        /\ uuid' = gen.uuid
  /\ UNCHANGED <<app, elkResult, resolved>>
  /\ elkLayout
  /\ UNCHANGED svcVars

InitApp ==
  /\ version = "service"
  /\ input = [groups |-> <<>>, nodes |-> <<>>, edges |-> <<>>, enableGroups |-> TRUE]
  /\ callerOptions = <<>>
  /\ graph = NoValue /\ result = NoValue /\ output = NoValue /\ error = NoValue
  /\ svc = "idle"
  /\ AppInit

NextApp ==
  \/ \E seed \in 0..(NumSeeds - 1) : ngOnInit(seed)
  \/ onLoaded
  \/ \E value \in DirectionValues : onDirectionChange(value)
  \/ \E value \in AlgorithmValues : onAlgorithmChange(value)
  \/ \E value \in EdgeRoutingValues : onEdgeRoutingChange(value)
  \/ \E value \in NodePlacementValues : onNodePlacementChange(value)
  \/ \E value \in NodeSpacingValues : onNodeSpacingChange(value)
  \/ \E value \in LayerSpacingValues : onLayerSpacingChange(value)
  \/ \E value \in GroupPaddingValues : onGroupPaddingChange(value)
  \/ \E checked \in BOOLEAN : \E seed \in 0..(NumSeeds - 1) :
       onEnableGroupsChange(checked, seed)
  \/ \E req \in pending : ElkLayoutResolved(req)
  \/ \E req \in pending : ElkLayoutRejected(req)

SpecApp == InitApp /\ [][NextApp]_vars

\* ---------------------------------------------------------------------
\* Properties of calculateLayout
\* ---------------------------------------------------------------------
\* the engine's result has the shape of the submitted graph: same ids, nesting,
\* type tags and edge lists
SameShape(res, g) ==
  /\ res.edges = g.edges
  /\ Len(res.children) = Len(g.children)
  /\ \A i \in 1..Len(g.children) :
       LET a == res.children[i]
           b == g.children[i]
       IN /\ a.id = b.id /\ TypeOf(a) = TypeOf(b)
          /\ ("children" \in DOMAIN a) = ("children" \in DOMAIN b)
          /\ "children" \in DOMAIN b =>
               /\ a.edges = b.edges
               /\ Len(a.children) = Len(b.children)
               /\ \A j \in 1..Len(b.children) :
                    /\ a.children[j].id = b.children[j].id
                    /\ TypeOf(a.children[j]) = TypeOf(b.children[j])

\* number of entries of a list with the given id
CountId(list, id) == Cardinality({i \in 1..Len(list) : list[i].id = id})

\* C1: every node calculateLayout returns is positioned at the sum of the
\* origins of its ancestors in the engine's result plus its own offset there,
\* a missing coordinate counting as 0; a root-level node keeps the engine's
\* coordinates.
C1_AbsolutePositions ==
  svc = "returned" =>
    \A k \in 1..Len(output.nodes) :
      LET o == output.nodes[k]
          res == result.value
      IN IF o.parentId = Null
         THEN \E i \in 1..Len(res.children) :
                /\ res.children[i].id = o.id
                /\ o.position = [x |-> OrZero(Get(res.children[i], "x")),
                                 y |-> OrZero(Get(res.children[i], "y"))]
         ELSE \E i \in 1..Len(res.children) :
                /\ res.children[i].id = o.parentId
                /\ "children" \in DOMAIN res.children[i]
                /\ \E j \in 1..Len(res.children[i].children) :
                     LET gr == res.children[i]
                         ch == gr.children[j]
                     IN /\ ch.id = o.id
                        /\ o.position =
                             [x |-> OrZero(Get(gr, "x")) + OrZero(Get(ch, "x")),
                              y |-> OrZero(Get(gr, "y")) + OrZero(Get(ch, "y"))]

\* a returned node inside a group whose group and own offsets are both positive
\* on x, and whose own y is missing in the engine's result
C1_Witness ==
  /\ svc = "returned"
  /\ \E k \in 1..Len(output.nodes) : \E i \in 1..Len(result.value.children) :
       LET o == output.nodes[k]
           gr == result.value.children[i]
       IN /\ o.parentId = gr.id
          /\ Get(gr, "x") > 0 /\ Get(gr, "y") > 0
          /\ \E j \in 1..Len(gr.children) :
               /\ gr.children[j].id = o.id
               /\ Get(gr.children[j], "x") > 0
               /\ "y" \notin DOMAIN gr.children[j]
               /\ o.position.x = gr.x + gr.children[j].x
               /\ o.position.y = gr.y

\* C2: when the engine rejects, calculateLayout rejects with the same error
\* value and produces no output; when the engine resolves with a result that
\* has the shape of the submitted graph, calculateLayout returns and does not
\* reject.
C2_ErrorsPassThrough ==
  svc \in {"returned", "rejected"} =>
    /\ ~result.ok =>
         svc = "rejected" /\ error = result.error /\ output = NoValue
    /\ (result.ok /\ SameShape(result.value, graph)) =>
         svc = "returned" /\ error = NoValue /\ output # NoValue

C2_Witness ==
  /\ svc = "rejected"
  /\ ~result.ok
  /\ error = result.error
  /\ error \in EngineErrors
  /\ output = NoValue

\* places of a node id in the submitted graph
AtRoot(g, id) == {i \in 1..Len(g.children) :
                    "children" \notin DOMAIN g.children[i] /\ g.children[i].id = id}
InGroups(g, id) == {<<i, j>> \in (1..Len(g.children)) \X (1..MaxNodes + 1) :
                      /\ "children" \in DOMAIN g.children[i]
                      /\ j <= Len(g.children[i].children)
                      /\ g.children[i].children[j].id = id}

\* C3 (as claimed): every input node appears exactly once in the submitted
\* graph, under the group named by its parentId or at root level when the
\* parentId is null, whether enableGroups is true or false.
C3_NodesOneToOne ==
  (svc # "idle" /\ version = "service") =>
    \A n \in 1..Len(input.nodes) :
      LET node == input.nodes[n] IN
      IF node.parentId = Null
      THEN Cardinality(AtRoot(graph, node.id)) = 1 /\ InGroups(graph, node.id) = {}
      ELSE /\ AtRoot(graph, node.id) = {}
           /\ Cardinality(InGroups(graph, node.id)) = 1
           /\ \A p \in InGroups(graph, node.id) :
                graph.children[p[1]].id = node.parentId

PairsOf(nodes) == {<<nodes[i].id, nodes[i].parentId>> : i \in 1..Len(nodes)}
IdsOf(list) == {list[i].id : i \in 1..Len(list)}

\* C4 (as claimed): when the engine returns the submitted graph with only
\* x, y, width and height added, the (id, parentId) pairs of the output nodes
\* are those of the input nodes, and with enableGroups true the output group
\* ids are the input group ids.
C4_RoundTrip ==
  (svc = "returned" /\ version = "service" /\ SameShape(result.value, graph)) =>
    /\ PairsOf(output.nodes) = PairsOf(input.nodes)
    /\ input.enableGroups => IdsOf(output.groups) = IdsOf(input.groups)

\* C5 (as claimed): with enableGroups true and the edge lists returned
\* unchanged, every input edge is exactly once in the output edges.
C5_AllEdgesReturned ==
  (svc = "returned" /\ version = "service" /\ input.enableGroups
     /\ SameShape(result.value, graph)) =>
    \A e \in 1..Len(input.edges) :
      CountId(output.edges, input.edges[e].id) = 1

\* edge ids are unique within every edge list of the engine's result
UniquePerList(res) ==
  /\ \A k \in 1..Len(res.edges) : CountId(res.edges, res.edges[k].id) = 1
  /\ \A i \in 1..Len(res.children) :
       "edges" \in DOMAIN res.children[i] =>
         \A k \in 1..Len(res.children[i].edges) :
           CountId(res.children[i].edges, res.children[i].edges[k].id) = 1

\* C6: in the part_001 version, the output edges contain every edge the
\* engine returns at root level or inside a top-level group, and no edge id
\* twice, provided the ids are unique in each list of the engine's result.
C6_EdgesCollectedOnce ==
  (svc = "returned" /\ version = "part_001" /\ UniquePerList(result.value)) =>
    LET res == result.value IN
    /\ \A k \in 1..Len(res.edges) : CountId(output.edges, res.edges[k].id) = 1
    /\ \A i \in 1..Len(res.children) :
         (IsGroup_part001(res.children[i]) /\ "edges" \in DOMAIN res.children[i]) =>
           \A k \in 1..Len(res.children[i].edges) :
             CountId(output.edges, res.children[i].edges[k].id) = 1
    /\ \A k \in 1..Len(output.edges) : CountId(output.edges, output.edges[k].id) = 1

\* the engine returned an edge both at root level and inside a group, and
\* another edge only inside a group
C6_Witness ==
  /\ svc = "returned" /\ version = "part_001"
  /\ UniquePerList(result.value)
  /\ \E i \in 1..Len(result.value.children) :
       /\ "edges" \in DOMAIN result.value.children[i]
       /\ \E k \in 1..Len(result.value.children[i].edges) :
            LET id == result.value.children[i].edges[k].id
            IN CountId(result.value.edges, id) = 1 /\ CountId(output.edges, id) = 1

\* C9: no group element of the submitted graph carries a width or a height,
\* and the size of every output group is the width and height the engine
\* returned for it.
C9_GroupSizeFromEngine ==
  /\ svc # "idle" =>
       \A i \in 1..Len(graph.children) :
         "children" \in DOMAIN graph.children[i] =>
           /\ "width" \notin DOMAIN graph.children[i]
           /\ "height" \notin DOMAIN graph.children[i]
  /\ svc = "returned" =>
       \A k \in 1..Len(output.groups) :
         \E i \in 1..Len(result.value.children) :
           /\ result.value.children[i].id = output.groups[k].id
           /\ output.groups[k].size =
                [width |-> result.value.children[i].width,
                 height |-> result.value.children[i].height]

\* an output group whose size differs from the size of the input group
C9_Witness ==
  /\ svc = "returned" /\ version = "service"
  /\ \E k \in 1..Len(output.groups) : \E g \in 1..Len(input.groups) :
       /\ input.groups[g].id = output.groups[k].id
       /\ output.groups[k].size.width # input.groups[g].size.width
       /\ output.groups[k].size.height # input.groups[g].size.height

\* ---------------------------------------------------------------------
\* Properties of AppComponent
\* ---------------------------------------------------------------------
ControlHandlers ==
  {"onDirectionChange", "onAlgorithmChange", "onEdgeRoutingChange",
   "onNodePlacementChange", "onNodeSpacingChange", "onLayerSpacingChange",
   "onGroupPaddingChange", "onEnableGroupsChange"}

\* the numbers the strings of the range inputs denote
DecimalOf == (<<2, 0>> :> 20) @@ (<<1, 5, 0>> :> 150) @@ (<<1, 2, 0>> :> 120)

\* the controls after a handler call: the changed control has the event's
\* value, the others keep theirs
ControlsAfter(ctrl, handler, value) ==
  CASE handler = "onDirectionChange" -> [ctrl EXCEPT !.selectedDirection = value]
    [] handler = "onAlgorithmChange" -> [ctrl EXCEPT !.selectedAlgorithm = value]
    [] handler = "onEdgeRoutingChange" -> [ctrl EXCEPT !.selectedEdgeRouting = value]
    [] handler = "onNodePlacementChange" ->
         [ctrl EXCEPT !.selectedNodePlacement = value]
    [] handler = "onNodeSpacingChange" -> [ctrl EXCEPT !.nodeSpacing = DecimalOf[value]]
    [] handler = "onLayerSpacingChange" ->
         [ctrl EXCEPT !.layerSpacing = DecimalOf[value]]
    [] handler = "onGroupPaddingChange" ->
         [ctrl EXCEPT !.groupPadding = DecimalOf[value]]
    [] handler = "onEnableGroupsChange" -> [ctrl EXCEPT !.enableGroupsSignal = value]

\* C7: every call of a control handler starts exactly one layout request in
\* the same step, and the request carries the newly selected value and the
\* current values of all other controls and the current graph.
C7_OneRequestPerChange ==
  [][(lastEvent'.seq # lastEvent.seq /\ lastEvent'.handler \in ControlHandlers) =>
       LET after == ControlsAfter(controls, lastEvent'.handler, lastEvent'.value)
       IN /\ controls' = after
          /\ requested' = requested + 1
          /\ pending \subseteq pending'
          /\ Cardinality(pending' \ pending) = 1
          /\ \A r \in pending' \ pending :
               /\ r.options = LayoutOptions(after)
               /\ r.input = LayoutInput(foblexGroups', foblexNodes', foblexEdges',
                                        after)]_vars

\* a group padding change after a direction change: the request carries both
C7_Witness ==
  /\ lastEvent.handler = "onGroupPaddingChange"
  /\ lastEvent.value = <<2, 0>>
  /\ \E r \in pending :
       /\ r.id = requested
       /\ r.options.groupPadding = [top |-> 20, right |-> 20, bottom |-> 20, left |-> 20]
       /\ r.options.direction = "UP"
       /\ r.options.spacing.nodeNode = 80

\* C8 (as claimed): once no request is pending and the request started last
\* has resolved, the elk* signals hold the layout of that request, which is
\* the layout of the current controls and of the current foblex* graph.
C8_LatestLayoutShown ==
  (pending = {} /\ requested > 0 /\ requested \in resolved) =>
    elkResult = [id |-> requested,
                 input |-> LayoutInput(foblexGroups, foblexNodes, foblexEdges,
                                       controls),
                 options |-> LayoutOptions(controls)]

\* C10: after ngOnInit the generated graph matches the toggle: with groups
\* enabled 20 groups owning 3 to 10 nodes each, and root-level nodes; with
\* groups disabled no group and 50 root-level nodes; every non-null parentId
\* names a group of foblexGroups.
C10_GraphMatchesToggle ==
  app = "ready" =>
    /\ LET groupIds == {foblexGroups[g].id : g \in 1..Len(foblexGroups)}
       IN \A n \in 1..Len(foblexNodes) :
            foblexNodes[n].parentId # Null => foblexNodes[n].parentId \in groupIds
    /\ IF controls.enableGroupsSignal
       THEN /\ Len(foblexGroups) = 20
            /\ \A g \in 1..Len(foblexGroups) :
                 Cardinality({n \in 1..Len(foblexNodes) :
                                foblexNodes[n].parentId = foblexGroups[g].id})
                   \in 3..10
            /\ \E n \in 1..Len(foblexNodes) : foblexNodes[n].parentId = Null
       ELSE /\ Len(foblexGroups) = 0
            /\ Len(foblexNodes) = 50
            /\ \A n \in 1..Len(foblexNodes) : foblexNodes[n].parentId = Null

\* groups switched off and on again: 20 groups, one with 3 and one with 10 nodes
C10_Witness ==
  /\ app = "ready"
  /\ lastEvent.handler = "onEnableGroupsChange"
  /\ lastEvent.seq = 3
  /\ controls.enableGroupsSignal
  /\ Len(foblexGroups) = 20
  /\ \E g \in 1..Len(foblexGroups) :
       Cardinality({n \in 1..Len(foblexNodes) :
                      foblexNodes[n].parentId = foblexGroups[g].id}) = 3
  /\ \E g \in 1..Len(foblexGroups) :
       Cardinality({n \in 1..Len(foblexNodes) :
                      foblexNodes[n].parentId = foblexGroups[g].id}) = 10

\* ---------------------------------------------------------------------
\* Properties of the submitted graph and its layout options
\* ---------------------------------------------------------------------
\* C11: with enableGroups false the submitted graph is flat: it has no group
\* element, every input edge is in the root-level edge list, every input node
\* is a root-level child, and the returned groups list is empty.
C11_FlatGraphWhenDisabled ==
  (svc # "idle" /\ ~input.enableGroups) =>
    /\ \A i \in 1..Len(graph.children) : TypeOf(graph.children[i]) # "group"
    /\ \A e \in 1..Len(input.edges) :
         CountId(graph.edges, input.edges[e].id) = 1
    /\ \A n \in 1..Len(input.nodes) :
         CountId(graph.children, input.nodes[n].id) = 1
    /\ svc = "returned" => output.groups = <<>>

\* the option the caller chose, the default when the caller left it out
OptionOfCaller(f) ==
  IF f \in DOMAIN callerOptions THEN callerOptions[f] ELSE defaultOptions[f]

\* the layout options submitted for the groups of the graph
GroupOptionsOf(g) ==
  {g.children[i].layoutOptions :
     i \in {j \in 1..Len(g.children) : "layoutOptions" \in DOMAIN g.children[j]}}

\* C12: direction reaches the engine only for layered and mrtree, edge routing
\* and node placement only for layered: for force and stress neither the root
\* nor a group carries a direction, edge-routing or node-placement key; for
\* mrtree the direction sent is the caller's, the edge routing sent is
\* ORTHOGONAL and no node placement is sent; for layered the root carries the
\* caller's three values and a group carries no other value for them.
C12_OptionsRoutedByAlgorithm ==
  svc # "idle" =>
    LET root == graph.layoutOptions
        all == {root} \cup GroupOptionsOf(graph)
        algorithm == OptionOfCaller("algorithm")
    IN CASE algorithm \in {"force", "stress"} ->
              \A o \in all :
                DOMAIN o \cap {"elk.direction", "elk.edgeRouting",
                               "elk.layered.nodePlacement.strategy"} = {}
         [] algorithm = "mrtree" ->
              \A o \in all :
                /\ o["elk.direction"] = OptionOfCaller("direction")
                /\ o["elk.edgeRouting"] = "ORTHOGONAL"
                /\ "elk.layered.nodePlacement.strategy" \notin DOMAIN o
         [] algorithm = "layered" ->
              /\ root["elk.direction"] = OptionOfCaller("direction")
              /\ root["elk.edgeRouting"] = OptionOfCaller("edgeRouting")
              /\ root["elk.layered.nodePlacement.strategy"] =
                   OptionOfCaller("nodePlacement")
              /\ \A o \in GroupOptionsOf(graph) :
                   /\ "elk.direction" \in DOMAIN o =>
                        o["elk.direction"] = OptionOfCaller("direction")
                   /\ "elk.edgeRouting" \in DOMAIN o =>
                        o["elk.edgeRouting"] = OptionOfCaller("edgeRouting")
                   /\ "elk.layered.nodePlacement.strategy" \in DOMAIN o =>
                        o["elk.layered.nodePlacement.strategy"] =
                          OptionOfCaller("nodePlacement")

\* a graph with groups submitted for mrtree by a caller who chose direction
\* DOWN, SPLINES and BRANDES_KOEPF: DOWN is sent, ORTHOGONAL is sent instead
\* of SPLINES, and the placement is not sent
C12_Witness ==
  /\ svc = "awaiting"
  /\ callerOptions.algorithm = "mrtree"
  /\ "direction" \in DOMAIN callerOptions
  /\ callerOptions.direction = "DOWN"
  /\ callerOptions.edgeRouting = "SPLINES"
  /\ callerOptions.nodePlacement = "BRANDES_KOEPF"
  /\ GroupOptionsOf(graph) # {}
  /\ \A o \in {graph.layoutOptions} \cup GroupOptionsOf(graph) :
       /\ o["elk.direction"] = "DOWN"
       /\ o["elk.edgeRouting"] = "ORTHOGONAL"
       /\ "elk.layered.nodePlacement.strategy" \notin DOMAIN o

\* C13: for every algorithm the root-level 'elk.spacing.nodeNode' submitted is
\* the caller's spacing.nodeNode, and the root carries the layer spacing
\* 'elk.layered.spacing.nodeNodeBetweenLayers' exactly when the algorithm is
\* layered.
C13_NodeSpacingEffective ==
  svc # "idle" =>
    LET root == graph.layoutOptions
    IN /\ root["elk.spacing.nodeNode"] =
            Str(Get(OptionOfCaller("spacing"), "nodeNode"))
       /\ ("elk.layered.spacing.nodeNodeBetweenLayers" \in DOMAIN root)
            <=> (OptionOfCaller("algorithm") = "layered")

\* C14: in the service version of src/unnamed/part_001, with enableGroups true
\* the 'elk.padding' submitted for every group is the caller's groupPadding
\* (top, left, bottom, right), for every algorithm.
C14_GroupPaddingFromCaller ==
  (svc # "idle" /\ version = "part_001" /\ input.enableGroups) =>
    \A o \in GroupOptionsOf(graph) :
      o["elk.padding"] = PaddingString(OptionOfCaller("groupPadding"))

====
